---------------------------- MODULE Spec2Model ----------------------------
(***************************************************************************)
(* Model of Fill.js: bilinear interpolation over a grid of samples tied to *)
(* a geographic bounding box.                                              *)
(*                                                                         *)
(* A JavaScript number is modelled as an exact extended rational: a finite *)
(* value n/d in lowest terms, +Infinity, -Infinity or NaN.  `undefined`    *)
(* (the result of reading an array out of range) is a value of its own.    *)
(* The arithmetic is exact.  The fractions the caller passes are dyadic     *)
(* (k / 2^FracBits) and the stored samples small integers, so that on the  *)
(* boxes with integer bounds IEEE-754 doubles compute exactly the values   *)
(* of the model; elsewhere a double differs from it by rounding only.      *)
(***************************************************************************)
EXTENDS Integers, Sequences, FiniteSets

(***************************************************************************)
(* Bounds of the model.                                                    *)
(***************************************************************************)
MaxWidth == 3
MaxHeight == 3
FracBits == 2
Margin == 1
Huge == 1000000
MaxIdx == 5

(***************************************************************************)
(* JavaScript values.                                                      *)
(***************************************************************************)
RECURSIVE GCD(_, _)
GCD(a, b) == IF b = 0 THEN a ELSE GCD(b, a % b)

Abs(n) == IF n < 0 THEN -n ELSE n

Fin(n, d) ==
  LET g == GCD(Abs(n), d)
  IN  [k |-> "fin", n |-> n \div g, d |-> d \div g]

Num(n) == [k |-> "fin", n |-> n, d |-> 1]
PosInf == [k |-> "inf", n |-> 1, d |-> 0]
NegInf == [k |-> "inf", n |-> -1, d |-> 0]
NaN == [k |-> "nan", n |-> 0, d |-> 0]
Undefined == [k |-> "undefined", n |-> 0, d |-> 0]
Null == [k |-> "null", n |-> 0, d |-> 0]
TypeError == [k |-> "TypeError", n |-> 0, d |-> 0]

IsFin(a) == a.k = "fin"
IsInf(a) == a.k = "inf"
\* ToNumber(undefined) is NaN
IsNaN(a) == a.k = "nan" \/ a.k = "undefined"
IsInteger(a) == IsFin(a) /\ a.d = 1

Sign(n) == IF n > 0 THEN 1 ELSE IF n < 0 THEN -1 ELSE 0
Inf(s) == IF s > 0 THEN PosInf ELSE NegInf

\* a < b on numbers; false when either side is NaN
Less(a, b) ==
  IF IsNaN(a) \/ IsNaN(b) THEN FALSE
  ELSE IF IsInf(a) THEN a.n < 0 /\ ~(IsInf(b) /\ b.n < 0)
  ELSE IF IsInf(b) THEN b.n > 0
  ELSE a.n * b.d < b.n * a.d

\* a + b
Add(a, b) ==
  IF IsNaN(a) \/ IsNaN(b) THEN NaN
  ELSE IF IsInf(a) /\ IsInf(b) THEN (IF a.n = b.n THEN a ELSE NaN)
  ELSE IF IsInf(a) THEN a
  ELSE IF IsInf(b) THEN b
  ELSE Fin(a.n * b.d + b.n * a.d, a.d * b.d)

\* -a
Neg(a) ==
  IF IsNaN(a) THEN NaN
  ELSE IF IsInf(a) THEN Inf(-a.n)
  ELSE Fin(-a.n, a.d)

\* a - b
Sub(a, b) == Add(a, Neg(b))

\* a * b
Mul(a, b) ==
  IF IsNaN(a) \/ IsNaN(b) THEN NaN
  ELSE IF IsInf(a) \/ IsInf(b)
       THEN (IF a.n = 0 \/ b.n = 0 THEN NaN ELSE Inf(Sign(a.n) * Sign(b.n)))
  ELSE Fin(a.n * b.n, a.d * b.d)

\* a / b (a zero divisor here is always +0: the difference of two equal numbers)
Div(a, b) ==
  IF IsNaN(a) \/ IsNaN(b) THEN NaN
  ELSE IF IsInf(a) THEN (IF IsInf(b) THEN NaN
                         ELSE Inf(a.n * (IF b.n < 0 THEN -1 ELSE 1)))
  ELSE IF IsInf(b) THEN Num(0)
  ELSE IF b.n = 0 THEN (IF a.n = 0 THEN NaN ELSE Inf(Sign(a.n)))
  ELSE Fin(Sign(b.n) * a.n * b.d, Abs(b.n) * a.d)

MathMin(a, b) ==
  IF IsNaN(a) \/ IsNaN(b) THEN NaN
  ELSE IF Less(b, a) THEN b ELSE a

MathMax(a, b) ==
  IF IsNaN(a) \/ IsNaN(b) THEN NaN
  ELSE IF Less(a, b) THEN b ELSE a

MathFloor(a) ==
  IF IsNaN(a) THEN NaN
  ELSE IF IsInf(a) THEN a
  ELSE Num(a.n \div a.d)

\* i is an index of the array arr (an integer in 0..length-1)
HasIndex(arr, i) == IsInteger(i) /\ i.n >= 0 /\ i.n < Len(arr)

\* row[i] for an array of numbers: undefined outside 0..length-1
Index(row, i) == IF HasIndex(row, i) THEN row[i.n + 1] ELSE Undefined

(***************************************************************************)
(* The data handed to the constructor.                                     *)
(***************************************************************************)
\* demo.js: the 2x2 test data
DemoValue == << <<Num(0), Num(10)>>, <<Num(20), Num(30)>> >>

DemoData ==
  [latMax |-> Fin(4125, 100), latMin |-> Fin(343, 10),
   lonMax |-> Fin(115075, 1000), lonMin |-> Fin(10975, 100),
   projectionType |-> "wg84", resolution |-> Fin(25, 1000),
   time |-> "202508210000", value |-> DemoValue]

\* h rows of w columns of zeros
Flat(h, w) == [r \in 1..h |-> [c \in 1..w |-> Num(0)]]

\* h rows of w columns, 10 at row r0, column c0 and 0 elsewhere
Unit(h, w, r0, c0) ==
  [r \in 1..h |-> [c \in 1..w |-> IF r = r0 /\ c = c0 THEN Num(10) ELSE Num(0)]]

\* the grids of the model: the demo grid and, for every shape of up to
\* MaxHeight rows and MaxWidth columns (the empty ones included), the grid
\* of zeros and the grids with one cell set; getValue is linear in the
\* stored values, so these span what it does on a shape
Grids ==
  {DemoValue}
    \cup { Flat(h, w) : h \in 0..MaxHeight, w \in 0..MaxWidth }
    \cup { Unit(h, w, r0, c0) : <<h, w, r0, c0>> \in
             { t \in (1..MaxHeight) \X (1..MaxWidth) \X (1..MaxHeight) \X (1..MaxWidth) :
                 t[3] <= t[1] /\ t[4] <= t[2] } }

\* bounding boxes: the demo's, a proper one, and the degenerate ones
DemoBox ==
  [latMax |-> DemoData.latMax, latMin |-> DemoData.latMin,
   lonMax |-> DemoData.lonMax, lonMin |-> DemoData.lonMin]

Boxes ==
  {DemoBox} \cup
  { [latMax |-> Num(la), latMin |-> Num(34), lonMax |-> Num(lo), lonMin |-> Num(110)] :
      la \in {34, 36}, lo \in {110, 114} }

Data(b, g) ==
  [latMax |-> b.latMax, latMin |-> b.latMin, lonMax |-> b.lonMax, lonMin |-> b.lonMin,
   projectionType |-> DemoData.projectionType, resolution |-> DemoData.resolution,
   time |-> DemoData.time, value |-> g]

\* every grid under the demo's box, and the demo grid and the empty grids
\* under every box
DataSet ==
  { Data(DemoBox, g) : g \in Grids }
    \cup { Data(b, g) : b \in Boxes, g \in {DemoValue, Flat(0, 0), Flat(1, 0)} }

(***************************************************************************)
(* class Fill                                                              *)
(***************************************************************************)
\* constructor(data)
Fill(data) ==
  [latMax |-> data.latMax, latMin |-> data.latMin,
   lonMax |-> data.lonMax, lonMin |-> data.lonMin,
   projectionType |-> data.projectionType, resolution |-> data.resolution,
   time |-> data.time, value |-> data.value,
   height |-> Len(data.value),
   width |-> IF Len(data.value) >= 1 THEN Len(data.value[1]) ELSE 0]

\* mutants of Clamp01: no clamp at all; the upper clamp only
Clamp01_None(u) == u
Clamp01_UpperOnly(u) == MathMin(Num(1), u)

\* u = Math.max(0, Math.min(1, u))
Clamp01(u) == MathMax(Num(0), MathMin(Num(1), u))

\* mutant of GridCoord: scales by the size, not by the last index
GridCoord_BySize(u, size) == Mul(u, Num(size))

\* x = u * (this.width - 1)
GridCoord(u, size) == Mul(u, Num(size - 1))

\* mutant of UpperIndex: the neighbour index is not clamped
UpperIndex_Unclamped(x0, size) == Add(x0, Num(1))

\* x1 = Math.min(x0 + 1, this.width - 1)
UpperIndex(x0, size) == MathMin(Add(x0, Num(1)), Num(size - 1))

\* mutant of Frac: the floor is not subtracted
Frac_Whole(x, x0) == x

\* fx = x - x0
Frac(x, x0) == Sub(x, x0)

\* this.value[y][x], read after the row this.value[y] is known to exist
Sample(f, y, x) == Index(f.value[y.n + 1], x)

\* mutant of Blend: the two weights are swapped
Blend_Swapped(a, b, t) == Add(Mul(a, t), Mul(b, Sub(Num(1), t)))

\* a * (1 - t) + b * t
Blend(a, b, t) == Add(Mul(a, Sub(Num(1), t)), Mul(b, t))

\* getValue(u, v): the locals of the call and its result; reading
\* this.value[y][x] when this.value[y] is undefined throws a TypeError
getValueLocals(f, u0, v0) ==
  LET u == Clamp01(u0)
      v == Clamp01(v0)
      x == GridCoord(u, f.width)
      y == GridCoord(v, f.height)
      x0 == MathFloor(x)
      y0 == MathFloor(y)
      x1 == UpperIndex(x0, f.width)
      y1 == UpperIndex(y0, f.height)
      fx == Frac(x, x0)
      fy == Frac(y, y0)
      thrown == ~HasIndex(f.value, y0) \/ ~HasIndex(f.value, y1)
      tl == IF thrown THEN Undefined ELSE Sample(f, y0, x0)
      tr == IF thrown THEN Undefined ELSE Sample(f, y0, x1)
      bl == IF thrown THEN Undefined ELSE Sample(f, y1, x0)
      br == IF thrown THEN Undefined ELSE Sample(f, y1, x1)
      top == Blend(tl, tr, fx)
      bottom == Blend(bl, br, fx)
      result == Blend(top, bottom, fy)
  IN  [u |-> u, v |-> v, x |-> x, y |-> y, x0 |-> x0, y0 |-> y0,
       x1 |-> x1, y1 |-> y1, fx |-> fx, fy |-> fy,
       tl |-> tl, tr |-> tr, bl |-> bl, br |-> br,
       result |-> IF thrown THEN TypeError ELSE result]

getValue(f, u, v) == getValueLocals(f, u, v).result

\* mutant of Normalize: divides by the upper bound, not by the span
Normalize_ByMax(c, cMin, cMax) == Div(Sub(c, cMin), cMax)

\* u = (lon - this.lonMin) / (this.lonMax - this.lonMin)
Normalize(c, cMin, cMax) == Div(Sub(c, cMin), Sub(cMax, cMin))

\* getValueAtCoord(lon, lat)
getValueAtCoordLocals(f, lon, lat) ==
  getValueLocals(f, Normalize(lon, f.lonMin, f.lonMax),
                    Normalize(lat, f.latMin, f.latMax))

getValueAtCoord(f, lon, lat) == getValueAtCoordLocals(f, lon, lat).result

\* mutant of getRawValue: the upper bounds are tested with > instead of >=
getRawValue_OffByOne(f, x, y) ==
  IF Less(x, Num(0)) \/ Less(Num(f.width), x)
     \/ Less(y, Num(0)) \/ Less(Num(f.height), y)
  THEN Null
  ELSE IF HasIndex(f.value, y) THEN Index(f.value[y.n + 1], x) ELSE TypeError

\* getRawValue(x, y)
getRawValue(f, x, y) ==
  IF Less(x, Num(0)) \/ ~Less(x, Num(f.width))
     \/ Less(y, Num(0)) \/ ~Less(y, Num(f.height))
  THEN Null
  ELSE Sample(f, y, x)

(***************************************************************************)
(* The caller (demo.js): builds one sampler, then repeatedly queries it    *)
(* and logs the result.  op = "idle" between two queries.                  *)
(***************************************************************************)
VARIABLES fill, op, args, locals, ret

vars == <<fill, op, args, locals, ret>>

NoArgs == <<Undefined, Undefined>>
NoLocals == getValueLocals(Fill(DemoData), NaN, NaN)

\* the arguments the caller passes: the demo's (0, 0.5, 1; the middle of
\* the box), fractions in and around [0,1], and values far outside, the
\* infinite ones included
Den == 2 ^ FracBits
Fractions == { Fin(n, Den) : n \in (-Margin)..(Den + Margin) }
UVInputs ==
  {Num(0), Fin(1, 2), Num(1)} \cup Fractions
    \cup {Num(Huge), Num(-Huge), PosInf, NegInf}
Middle(cMin, cMax) == Div(Add(cMin, cMax), Num(2))
CoordInputs(cMin, cMax) ==
  {Middle(cMin, cMax), Sub(cMin, Num(1)), Add(cMax, Num(1))}
    \cup { Add(cMin, Mul(t, Sub(cMax, cMin))) : t \in Fractions }
IdxInputs == { Num(i) : i \in (-Margin)..MaxIdx }

Init ==
  /\ fill \in { Fill(data) : data \in DataSet }
  /\ op = "idle"
  /\ args = NoArgs
  /\ locals = NoLocals
  /\ ret = Undefined

CallGetValue ==
  /\ op = "idle"
  /\ \E u \in UVInputs, v \in UVInputs :
       LET l == getValueLocals(fill, u, v)
       IN  /\ op' = "getValue"
           /\ args' = <<u, v>>
           /\ locals' = l
           /\ ret' = l.result
  /\ UNCHANGED fill

CallGetValueAtCoord ==
  /\ op = "idle"
  /\ \E lon \in CoordInputs(fill.lonMin, fill.lonMax),
        lat \in CoordInputs(fill.latMin, fill.latMax) :
       LET l == getValueAtCoordLocals(fill, lon, lat)
       IN  /\ op' = "getValueAtCoord"
           /\ args' = <<lon, lat>>
           /\ locals' = l
           /\ ret' = l.result
  /\ UNCHANGED fill

CallGetRawValue ==
  /\ op = "idle"
  /\ \E x \in IdxInputs, y \in IdxInputs :
       /\ op' = "getRawValue"
       /\ args' = <<x, y>>
       /\ ret' = getRawValue(fill, x, y)
  /\ locals' = NoLocals
  /\ UNCHANGED fill

\* console.log(...) of the value returned; the caller goes on
ConsoleLog ==
  /\ op # "idle"
  /\ op' = "idle"
  /\ args' = NoArgs
  /\ locals' = NoLocals
  /\ ret' = Undefined
  /\ UNCHANGED fill

Next == CallGetValue \/ CallGetValueAtCoord \/ CallGetRawValue \/ ConsoleLog

Spec == Init /\ [][Next]_vars

TypeOK ==
  /\ fill.height \in 0..MaxHeight /\ fill.width \in 0..MaxWidth
  /\ op \in {"idle", "getValue", "getValueAtCoord", "getRawValue"}
  /\ ret.k \in {"fin", "nan", "undefined", "null", "TypeError"}

(***************************************************************************)
(* Properties.                                                             *)
(***************************************************************************)
NonEmpty == fill.width >= 1 /\ fill.height >= 1
ProperBox == Less(fill.lonMin, fill.lonMax) /\ Less(fill.latMin, fill.latMax)
DegenerateBox == fill.lonMin = fill.lonMax \/ fill.latMin = fill.latMax
IsDemoGrid == fill.value = DemoValue
\* a <= b on finite numbers
Leq(a, b) == IsFin(a) /\ IsFin(b) /\ ~Less(b, a)
InUnit(a) == Leq(Num(0), a) /\ Leq(a, Num(1))
\* the mathematical clamp of a number to [lo, hi]
ClampTo(a, lo, hi) == IF Less(a, lo) THEN lo ELSE IF Less(hi, a) THEN hi ELSE a

Corners == {locals.tl, locals.tr, locals.bl, locals.br}

\* C1: on a grid with width >= 1 and height >= 1, every getValue(u, v),
\* and every getValueAtCoord on a non-degenerate box, computes corner
\* indices with 0 <= x0 <= x1 <= width-1 and 0 <= y0 <= y1 <= height-1,
\* reads four stored numbers and raises no fault.
C1_IndicesInBounds ==
  (NonEmpty /\ (op = "getValue" \/ (op = "getValueAtCoord" /\ ProperBox))) =>
    /\ IsInteger(locals.x0) /\ IsInteger(locals.x1)
    /\ IsInteger(locals.y0) /\ IsInteger(locals.y1)
    /\ 0 <= locals.x0.n /\ locals.x0.n <= locals.x1.n
    /\ locals.x1.n <= fill.width - 1
    /\ 0 <= locals.y0.n /\ locals.y0.n <= locals.y1.n
    /\ locals.y1.n <= fill.height - 1
    /\ \A c \in Corners : IsFin(c)
    /\ ret # TypeError

C1_Witness ==
  /\ op = "getValue" /\ fill.width >= 2 /\ fill.height >= 2
  /\ args = <<Num(Huge), Num(-Huge)>>
  /\ locals.x0.n = fill.width - 1 /\ locals.x1.n = fill.width - 1
  /\ locals.y0.n = 0 /\ locals.y1.n = 1

\* C2: for u or v outside [0,1], getValue(u, v) returns what
\* getValue(clamp(u,0,1), clamp(v,0,1)) returns, on any non-empty grid.
C2_Clamping ==
  (op = "getValue" /\ NonEmpty /\ (~InUnit(args[1]) \/ ~InUnit(args[2]))) =>
    ret = getValue(fill, ClampTo(args[1], Num(0), Num(1)),
                         ClampTo(args[2], Num(0), Num(1)))

C2_Witness ==
  /\ op = "getValue" /\ fill.width >= 2 /\ fill.height >= 2
  /\ Less(args[1], Num(0)) /\ Less(Num(1), args[2])
  /\ ret = fill.value[fill.height][1] /\ ret = Num(10)

\* C3: on any non-empty grid getValue(0,0) = value[0][0],
\* getValue(1,0) = value[0][width-1], getValue(0,1) = value[height-1][0],
\* getValue(1,1) = value[height-1][width-1]; 0, 10, 20, 30 on the demo grid.
C3_ExactCorners ==
  (op = "getValue" /\ NonEmpty
     /\ args[1] \in {Num(0), Num(1)} /\ args[2] \in {Num(0), Num(1)}) =>
    /\ ret = fill.value[IF args[2] = Num(0) THEN 1 ELSE fill.height]
                       [IF args[1] = Num(0) THEN 1 ELSE fill.width]
    /\ IsDemoGrid =>
         ret = Num(10 * args[1].n + 20 * args[2].n)

C3_Witness ==
  /\ op = "getValue" /\ fill.width = 3 /\ fill.height = 2
  /\ args = <<Num(1), Num(1)>>
  /\ ret = fill.value[2][3] /\ ret = Num(10)

CellOf(n, d, size) ==
  CHOOSE i \in 0..(size - 1) :
    /\ i * d <= n * (size - 1)
    /\ n * (size - 1) < (i + 1) * d \/ i = size - 1
\* the neighbour column (row), or the cell's own at the last one
NextOf(i, size) == IF i + 1 <= size - 1 THEN i + 1 ELSE i
\* the stored integer at row j, column i (from 0)
Stored(j, i) == fill.value[j + 1][i + 1].n

\* C5: for u, v in [0,1] getValue(u, v) is the bilinear blend of the four
\* corners of the cell containing (u*(width-1), v*(height-1)); on a 2x2
\* grid [[a,b],[c,d]] it is a(1-u)(1-v) + b*u(1-v) + c(1-u)v + d*u*v, the
\* centre is the average of the four values (15 on the demo grid), and
\* there getValue(0.5,0) = 5 and getValue(1,0.5) = 20.
C5_Bilinear ==
  (op = "getValue" /\ NonEmpty /\ InUnit(args[1]) /\ InUnit(args[2])) =>
    LET un == args[1].n
        ud == args[1].d
        vn == args[2].n
        vd == args[2].d
        i == CellOf(un, ud, fill.width)
        j == CellOf(vn, vd, fill.height)
        i1 == NextOf(i, fill.width)
        j1 == NextOf(j, fill.height)
        fxn == un * (fill.width - 1) - i * ud
        fyn == vn * (fill.height - 1) - j * vd
    IN  /\ IsFin(ret)
        /\ ret.n * ud * vd =
             ret.d * ( Stored(j, i) * (ud - fxn) * (vd - fyn)
                     + Stored(j, i1) * fxn * (vd - fyn)
                     + Stored(j1, i) * (ud - fxn) * fyn
                     + Stored(j1, i1) * fxn * fyn )
        /\ (fill.width = 2 /\ fill.height = 2) =>
             /\ ret.n * ud * vd =
                  ret.d * ( Stored(0, 0) * (ud - un) * (vd - vn)
                          + Stored(0, 1) * un * (vd - vn)
                          + Stored(1, 0) * (ud - un) * vn
                          + Stored(1, 1) * un * vn )
             /\ args = <<Fin(1, 2), Fin(1, 2)>> =>
                  4 * ret.n = ret.d * (Stored(0, 0) + Stored(0, 1)
                                       + Stored(1, 0) + Stored(1, 1))
             /\ args = <<Fin(1, 2), Num(0)>> =>
                  2 * ret.n = ret.d * (Stored(0, 0) + Stored(0, 1))
             /\ args = <<Num(1), Fin(1, 2)>> =>
                  2 * ret.n = ret.d * (Stored(0, 1) + Stored(1, 1))
        /\ IsDemoGrid =>
             /\ args = <<Fin(1, 2), Fin(1, 2)>> => ret = Num(15)
             /\ args = <<Fin(1, 2), Num(0)>> => ret = Num(5)
             /\ args = <<Num(1), Fin(1, 2)>> => ret = Num(20)

C5_Witness ==
  /\ op = "getValue" /\ IsDemoGrid
  /\ args = <<Fin(1, 2), Fin(1, 2)>>
  /\ ret = Num(15)

\* C6: getRawValue(col, row) on integers returns null when col < 0 or
\* col >= width or row < 0 or row >= height, and the stored
\* value[row][col] otherwise; getRawValue(5,5) on a 2x2 grid is null.
C6_RawValue ==
  (op = "getRawValue") =>
    LET col == args[1].n
        row == args[2].n
    IN  /\ IF col < 0 \/ col >= fill.width \/ row < 0 \/ row >= fill.height
           THEN ret = Null
           ELSE ret = fill.value[row + 1][col + 1] /\ IsFin(ret)
        /\ (fill.width = 2 /\ fill.height = 2 /\ col = 5 /\ row = 5) => ret = Null

C6_Witness ==
  /\ op = "getRawValue" /\ fill.width = 3 /\ fill.height = 2
  /\ args = <<Num(2), Num(1)>>
  /\ ret = Num(10)

\* (c - cMin) / (cMax - cMin) as a fraction, for cMax > cMin
UnitOf(c, cMin, cMax) ==
  Fin((c.n * cMin.d - cMin.n * c.d) * cMax.d,
      c.d * (cMax.n * cMin.d - cMin.n * cMax.d))

C8_DegenerateBoxSignalled ==
  (op = "getValueAtCoord" /\ DegenerateBox) => ret.k = "DegenerateBoundingBox"

\* C9: construction from no rows or from an empty first row fails, so no
\* sampler with width = 0 or height = 0 exists and no getValue query runs
\* against an empty grid.
C9_NoEmptySampler ==
  (op \in {"getValue", "getValueAtCoord"}) => NonEmpty

\* C10: with width = 1 the result of getValue(u, v) does not depend on u,
\* with height = 1 it does not depend on v, for u, v of any range; on a
\* 1x1 grid holding k, getValue(u, v) = k.
C10_DegenerateAxes ==
  (op = "getValue" /\ NonEmpty) =>
    /\ fill.width = 1 =>
         \A u \in UVInputs : getValue(fill, u, args[2]) = ret
    /\ fill.height = 1 =>
         \A v \in UVInputs : getValue(fill, args[1], v) = ret
    /\ (fill.width = 1 /\ fill.height = 1) => ret = fill.value[1][1]

C10_Witness ==
  /\ op = "getValue" /\ fill.width = 1 /\ fill.height = 3
  /\ args = <<Num(Huge), Fin(1, 4)>>
  /\ ret = Num(5)

=============================================================================
